---- MODULE Spec2Model ----
(***************************************************************************)
(* Model of util/update_scripts.py: the per-script update protocol         *)
(* (get_script_vars, update_script_content, process_script, main) and the  *)
(* three backend checkers (check_git_repo, check_svn_repo, check_hg_repo). *)
(*                                                                         *)
(* Text is a sequence of tokens.  A token is either one of the punctuation *)
(* characters of Punct or a maximal run of other characters (a "word":     *)
(* what the regular expression \w+ matches in the scripts modelled here).  *)
(* Python's None is the reserved value None; "" is the empty sequence.     *)
(***************************************************************************)
EXTENDS Naturals, Sequences, FiniteSets, TLC

\* ------------------------------------------------------------------ text

Whitespace == {" ", "\t", "\n", "\r"}
Quotes == {"\"", "'"}
Punct == Whitespace \cup Quotes \cup {"=", ":", "#"}
IsWord(t) == t \notin Punct

None == <<"<None>">>
Truthy(v) == v # None /\ v # <<>>

Text == Seq(STRING)

\* open(path, 'r') with the default newline=None: "\r\n" and "\r" become "\n".
UniversalNewlinesOf[s \in Text] ==
    IF s = <<>> THEN <<>>
    ELSE IF s[1] = "\r" /\ Len(s) >= 2 /\ s[2] = "\n"
         THEN <<"\n">> \o UniversalNewlinesOf[SubSeq(s, 3, Len(s))]
    ELSE IF s[1] = "\r"
         THEN <<"\n">> \o UniversalNewlinesOf[Tail(s)]
    ELSE <<s[1]>> \o UniversalNewlinesOf[Tail(s)]
UniversalNewlines(s) == UniversalNewlinesOf[s]

\* str.split(sep): the segments between the occurrences of sep, empty ones kept.
SplitOnOf[s \in Text, sep \in STRING] ==
    IF \E k \in 1..Len(s) : s[k] = sep
    THEN LET n == CHOOSE k \in 1..Len(s) : s[k] = sep /\ \A j \in 1..(k-1) : s[j] # sep
         IN  <<SubSeq(s, 1, n-1)>> \o SplitOnOf[SubSeq(s, n+1, Len(s)), sep]
    ELSE <<s>>
SplitOn(s, sep) == SplitOnOf[s, sep]

\* sep.join(segments)
JoinOf[segs \in Seq(Text), sep \in STRING] ==
    IF segs = <<>> THEN <<>>
    ELSE IF Len(segs) = 1 THEN segs[1]
    ELSE segs[1] \o <<sep>> \o JoinOf[Tail(segs), sep]
Join(segs, sep) == JoinOf[segs, sep]

\* str.splitlines(): lines end at "\n", "\r\n" or "\r"; no empty last line.
splitlinesOf[s \in Text] ==
    LET segs == SplitOn(UniversalNewlines(s), "\n")
    IN  IF segs[Len(segs)] = <<>> THEN SubSeq(segs, 1, Len(segs)-1) ELSE segs
splitlines(s) == splitlinesOf[s]

\* str.strip(): leading and trailing whitespace removed.
lstripOf[s \in Text] == IF s # <<>> /\ s[1] \in Whitespace THEN lstripOf[Tail(s)] ELSE s
lstrip(s) == lstripOf[s]
rstripOf[s \in Text] ==
    IF s # <<>> /\ s[Len(s)] \in Whitespace THEN rstripOf[SubSeq(s, 1, Len(s)-1)] ELSE s
rstrip(s) == rstripOf[s]
strip(s) == rstrip(lstrip(s))

\* str.split(): the runs of non-whitespace.
splitOf[s \in Text] ==
    LET t == lstrip(s)
    IN  IF t = <<>> THEN <<>>
        ELSE LET n == CHOOSE k \in 1..Len(t) :
                        /\ \A j \in 1..k : t[j] \notin Whitespace
                        /\ (k = Len(t) \/ t[k+1] \in Whitespace)
             IN  <<SubSeq(t, 1, n)>> \o splitOf[SubSeq(t, n+1, Len(t))]
split(s) == splitOf[s]

\* "phrase in text" for a phrase that is one token of the text.
Contains(s, tok) == \E i \in 1..Len(s) : s[i] = tok

\* ------------------------------------------------- script variable model

Put(d, k, v) == [x \in DOMAIN d \cup {k} |-> IF x = k THEN v ELSE d[x]]
Get(d, k) == IF k \in DOMAIN d THEN d[k] ELSE None
EmptyDict == [x \in {} |-> <<>>]

\* re.match(r'^(\w+)=["\'](.*)["\']$', line): a word, "=", a quote, anything,
\* a quote (the two quotes need not be the same character).
AssignMatch(line) ==
    /\ Len(line) >= 4
    /\ IsWord(line[1])
    /\ line[2] = "="
    /\ line[3] \in Quotes
    /\ line[Len(line)] \in Quotes

\* The loop of get_script_vars over content.splitlines(), started with the
\* dictionary d: a later assignment of a name replaces an earlier one.
ParseLines[lines \in Seq(Text)] ==
    IF lines = <<>> THEN EmptyDict
    ELSE LET line == strip(lines[Len(lines)])
             d == ParseLines[SubSeq(lines, 1, Len(lines) - 1)]
         IN  IF AssignMatch(line)
             THEN Put(d, line[1], SubSeq(line, 4, Len(line)-1))
             ELSE d

get_script_vars(content) == ParseLines[splitlines(content)]

\* pattern f'^{var_name}=.*$' under re.MULTILINE: a line, between two "\n",
\* that begins with var_name followed by "=".
UpdateMatch(line, var_name) ==
    Len(line) >= 2 /\ line[1] = var_name /\ line[2] = "="

NewLine(var_name, new_value) == <<var_name, "=", "\"">> \o new_value \o <<"\"">>

\* re.sub(pattern, new_line, content, flags=re.MULTILINE): every matching line.
Resub(content, var_name, new_value) ==
    LET segs == SplitOn(content, "\n")
    IN  Join([i \in 1..Len(segs) |->
                 IF UpdateMatch(segs[i], var_name)
                 THEN NewLine(var_name, new_value) ELSE segs[i]], "\n")

\* update_script_content: the new bytes of the file.  The file is read with
\* newline translation and written back with newline='\n' (no translation).
update_script_content(disk, var_name, new_value) ==
    Resub(UniversalNewlines(disk), var_name, new_value)

\* ------------------------------------------------------ external commands

\* What subprocess.run meets: the tool may be missing (the process cannot be
\* spawned), else it ends with a return code, stdout and stderr.
Cmd(rc, stdout, stderr) == [rc |-> rc, stdout |-> stdout, stderr |-> stderr]
NotRun == Cmd(0, <<>>, <<>>)

Ret(v) == [kind |-> IF v = None THEN "none" ELSE "value", val |-> v]
Raise(e) == [kind |-> "raise", val |-> <<e>>]

\* subprocess.run(..., check=True) raises CalledProcessError on rc # 0.
CheckFails(cmd) == cmd.rc # 0

\* Remote tags: a version (its dotted numbers) and the commit it points at.
Digits(n) == IF n < 10 THEN <<48 + n>> ELSE <<48 + (n \div 10), 48 + (n % 10)>>
RefBytesOf[ver \in Seq(Nat)] ==
    IF Len(ver) = 1 THEN Digits(ver[1])
    ELSE Digits(ver[1]) \o <<46>> \o RefBytesOf[Tail(ver)]
RefBytes(ver) == RefBytesOf[ver]

LexLessOf[a \in Seq(Nat), b \in Seq(Nat)] ==
    IF a = <<>> THEN b # <<>>
    ELSE IF b = <<>> THEN FALSE
    ELSE IF a[1] # b[1] THEN a[1] < b[1]
    ELSE LexLessOf[Tail(a), Tail(b)]
LexLess(a, b) == LexLessOf[a, b]

\* git ls-remote --tags --refs URL refs/tags/FILTER, with no --sort option:
\* one "<commit>\t<ref>" line per matching tag, in refname (byte) order.
LsRemoteTags(tags) ==
    LET nth(j) == CHOOSE t \in tags :
                     Cardinality({u \in tags :
                                    LexLess(RefBytes(u.ver), RefBytes(t.ver))}) = j - 1
        lines == [j \in 1..Cardinality(tags) |-> <<nth(j).commit, "\t", nth(j).ref>>]
    IN  IF tags = {} THEN <<>> ELSE Join(lines, "\n") \o <<"\n">>

\* get_git_default_branch(repo_url), given the outcome of `git remote show`.
HeadBranchLine(line) ==
    \E k \in 1..(Len(line) - 1) : line[k] = "HEAD branch" /\ line[k+1] = ":"

get_git_default_branch(r) ==
    IF ~r.spawn THEN Raise("FileNotFoundError")
    ELSE IF CheckFails(r.show) THEN Ret(None)
    ELSE LET lines == splitlines(r.show.stdout)
             hits == {k \in 1..Len(lines) : HeadBranchLine(lines[k])}
         IN  IF hits = {} THEN Ret(None)
             ELSE LET k == CHOOSE h \in hits : \A g \in hits : h <= g
                      parts == SplitOn(lines[k], ":")
                  IN  Ret(strip(parts[Len(parts)]))

\* check_git_repo(repo_url, current_commit, branch, tag_filter), given what the
\* git commands it runs meet (r.tags: the remote's matching tags).
GitHeads(r) ==
    IF CheckFails(r.heads) THEN Ret(None)
    ELSE IF strip(r.heads.stdout) # <<>> THEN Ret(split(r.heads.stdout)[1])
    ELSE Ret(None)

check_git_repo(r, branch, tag_filter) ==
    IF Truthy(tag_filter)
    THEN IF ~r.spawn THEN Raise("FileNotFoundError")
         ELSE IF r.tagsrc # 0 THEN Ret(None)
         ELSE LET commits == splitlines(strip(LsRemoteTags(r.tags)))
              IN  IF commits # <<>>
                  THEN Ret(split(commits[Len(commits)])[1])
                  ELSE Ret(None)
    ELSE IF ~Truthy(branch)
         THEN LET b == get_git_default_branch(r)
              IN  IF b.kind = "raise" THEN b
                  ELSE IF ~Truthy(b.val) THEN Ret(None)
                  ELSE GitHeads(r)
         ELSE IF ~r.spawn THEN Raise("FileNotFoundError")
         ELSE GitHeads(r)

\* check_svn_repo(repo_url, current_rev), given the outcome of `svn info`
\* (run without check=True).
\* Mutant of AuthRequired: the "Username:" prompt is not looked for.
AuthRequiredPhraseOnly(stderr) == Contains(stderr, "Authentication required")

AuthRequired(stderr) ==
    Contains(stderr, "Authentication required") \/ Contains(stderr, "Username:")

RevisionLine(line) == Len(line) >= 2 /\ line[1] = "Revision" /\ line[2] = ":"

check_svn_repo(r) ==
    IF ~r.spawn THEN Raise("FileNotFoundError")
    ELSE IF AuthRequired(r.info.stderr) THEN Ret(None)
    ELSE IF r.info.rc = 0
         THEN LET lines == splitlines(r.info.stdout)
                  hits == {k \in 1..Len(lines) : RevisionLine(lines[k])}
              IN  IF hits = {} THEN Ret(None)
                  ELSE LET k == CHOOSE h \in hits : \A g \in hits : h <= g
                           parts == split(lines[k])
                       IN  Ret(strip(parts[Len(parts)]))
         ELSE Ret(None)

\* check_hg_repo(repo_url, current_hgrev), given the outcomes of `hg init` and
\* `hg in -f -n -l 1` (both check=True; FileNotFoundError is caught here).
check_hg_repo(r) ==
    IF ~r.spawn THEN Ret(None)
    ELSE IF CheckFails(r.init) THEN Ret(None)
    ELSE IF CheckFails(r.incoming) THEN Ret(None)
    ELSE LET lines == splitlines(r.incoming.stdout)
             hits == {k \in 1..Len(lines) : Contains(lines[k], "changeset")}
         IN  IF hits = {} THEN Ret(None)
             ELSE LET k == CHOOSE h \in hits : \A g \in hits : h <= g
                      parts == SplitOn(lines[k], ":")
                  IN  IF Len(parts) < 3 THEN Raise("IndexError")
                      ELSE Ret(strip(parts[3]))

\* ------------------------------------------------------------ inputs

MaxRuns == 2

LF == <<"\n">>
CRLF == <<"\r", "\n">>
Asg(name, q, val) == <<name, "=", q, val, q>>

GitScript ==
    <<"#", " ", "libx">> \o LF \o Asg("SCRIPT_REPO", "\"", "g") \o LF
    \o Asg("SCRIPT_COMMIT", "\"", "c1") \o LF
BranchScript ==
    Asg("SCRIPT_REPO", "\"", "g") \o LF \o Asg("SCRIPT_COMMIT", "'", "c1") \o LF
    \o Asg("SCRIPT_BRANCH", "\"", "main") \o LF
TagScript ==
    Asg("SCRIPT_REPO", "\"", "g") \o LF \o Asg("SCRIPT_COMMIT", "\"", "c1") \o LF
    \o Asg("SCRIPT_TAGFILTER", "\"", "v1.*") \o LF
SvnScript ==
    Asg("SCRIPT_REPO", "\"", "s") \o LF \o Asg("SCRIPT_REV", "\"", "r1") \o LF
    \o Asg("SCRIPT_COMMIT", "\"", "c1") \o LF
HgScript ==
    Asg("SCRIPT_REPO", "\"", "m") \o LF \o Asg("SCRIPT_HGREV", "\"", "h1") \o LF
    \o Asg("SCRIPT_COMMIT", "\"", "c1") \o LF
TwoSlotScript ==
    Asg("SCRIPT_REPO", "\"", "m") \o LF \o Asg("SCRIPT_HGREV", "\"", "h1") \o LF
    \o Asg("SCRIPT_REPO2", "\"", "g") \o LF \o Asg("SCRIPT_COMMIT2", "\"", "c1") \o LF
    \o Asg("SCRIPT_BRANCH2", "\"", "main") \o LF
GapScript ==
    Asg("SCRIPT_REPO", "\"", "g") \o LF \o Asg("SCRIPT_COMMIT", "\"", "c1") \o LF
    \o Asg("SCRIPT_BRANCH", "\"", "main") \o LF
    \o Asg("SCRIPT_REPO3", "\"", "g") \o LF \o Asg("SCRIPT_COMMIT3", "\"", "c1") \o LF
NoRepoScript == <<"echo", " ", "hi">> \o LF
EmptyRepoScript ==
    <<"SCRIPT_REPO", "=", "\"", "\"">> \o LF \o Asg("SCRIPT_COMMIT", "\"", "c1") \o LF
UnquotedScript ==
    Asg("SCRIPT_REPO", "\"", "g") \o LF \o <<"SCRIPT_COMMIT", "=", "c1">> \o LF
SkipScript ==
    Asg("SCRIPT_SKIP", "\"", "1") \o LF \o Asg("SCRIPT_REPO", "\"", "g") \o LF
    \o Asg("SCRIPT_COMMIT", "\"", "c1") \o LF
SkipEmptyScript ==
    <<"SCRIPT_SKIP", "=", "\"", "\"">> \o LF \o Asg("SCRIPT_REPO", "\"", "g") \o LF
    \o Asg("SCRIPT_COMMIT", "\"", "c1") \o LF
IndentedScript ==
    Asg("SCRIPT_REPO", "\"", "g") \o LF \o <<" ", " ">> \o Asg("SCRIPT_COMMIT", "\"", "c1")
    \o LF \o Asg("SCRIPT_BRANCH", "\"", "main") \o LF
CrlfScript ==
    Asg("SCRIPT_REPO", "\"", "g") \o CRLF \o Asg("SCRIPT_COMMIT", "\"", "c1") \o CRLF
    \o Asg("SCRIPT_BRANCH", "\"", "main") \o CRLF
DuplicateScript ==
    Asg("SCRIPT_REPO", "\"", "g") \o LF \o Asg("SCRIPT_COMMIT", "\"", "c0") \o LF
    \o Asg("SCRIPT_COMMIT", "\"", "c1") \o LF \o Asg("SCRIPT_BRANCH", "\"", "main") \o LF

ScriptPool ==
    { GitScript, BranchScript, TagScript, SvnScript, HgScript, TwoSlotScript,
      GapScript, NoRepoScript, EmptyRepoScript, UnquotedScript, SkipScript,
      SkipEmptyScript, IndentedScript, CrlfScript, DuplicateScript }
CompanionPool == { BranchScript, NoRepoScript, SkipScript }

Paths == {"scripts.d/a.sh", "scripts.d/b.sh"}
GlobOrders ==
    { <<"scripts.d/a.sh", "scripts.d/b.sh">>, <<"scripts.d/b.sh", "scripts.d/a.sh">> }

\* What the external commands can meet.
Tag(ver, ref, commit) == [ver |-> ver, ref |-> ref, commit |-> commit]
AllTags ==
    { Tag(<<1, 2, 0>>, "refs/tags/v1.2.0", "t1_2_0"),
      Tag(<<1, 10, 0>>, "refs/tags/v1.10.0", "t1_10_0"),
      Tag(<<1, 3, 0>>, "refs/tags/v1.3.0", "t1_3_0") }

Git(spawn, tagsrc, tags, show, heads) ==
    [spawn |-> spawn, tagsrc |-> tagsrc, tags |-> tags, show |-> show, heads |-> heads]
ShowHead ==
    Cmd(0, <<"*", " ", "remote", " ", "g", "\n",
             " ", " ", "HEAD branch", ":", " ", "main", "\n">>, <<>>)
ShowNoHead == Cmd(0, <<"*", " ", "remote", " ", "g", "\n">>, <<>>)
HeadsCmds ==
    { Cmd(128, <<>>, <<"fatal">>), Cmd(0, <<>>, <<>>),
      Cmd(0, <<"c2", "\t", "refs/heads/main", "\n">>, <<>>) }
GitResponses(branch, tag_filter) ==
    {Git(FALSE, 0, {}, NotRun, NotRun)} \cup
    IF Truthy(tag_filter)
    THEN {Git(TRUE, 128, {}, NotRun, NotRun)}
         \cup {Git(TRUE, 0, ts, NotRun, NotRun) : ts \in SUBSET AllTags}
    ELSE IF Truthy(branch)
    THEN {Git(TRUE, 0, {}, NotRun, h) : h \in HeadsCmds}
    ELSE {Git(TRUE, 0, {}, Cmd(128, <<>>, <<"fatal">>), NotRun),
          Git(TRUE, 0, {}, ShowNoHead, NotRun)}
         \cup {Git(TRUE, 0, {}, ShowHead, h) : h \in HeadsCmds}

SvnOuts == { <<>>, <<"URL", ":", " ", "s", "\n", "Revision", ":", " ", "r2", "\n">> }
SvnErrs ==
    { <<>>, <<"svn", ":", " ", "Authentication required">>, <<"Username:", " ">> }
SvnResponses ==
    {[spawn |-> FALSE, info |-> NotRun]} \cup
    {[spawn |-> TRUE, info |-> Cmd(rc, out, err)] :
        rc \in {0, 1}, out \in SvnOuts, err \in SvnErrs}

HgOuts ==
    { <<"comparing", " ", "with", " ", "m", "\n">>,
      <<"changeset", ":", " ", " ", "5", ":", "h2", "\n", "summary", ":", " ", "x", "\n">>,
      <<"changeset", " ", "5", "\n">> }
HgResponses ==
    { [spawn |-> FALSE, init |-> NotRun, incoming |-> NotRun],
      [spawn |-> TRUE, init |-> Cmd(1, <<>>, <<>>), incoming |-> NotRun],
      [spawn |-> TRUE, init |-> Cmd(0, <<>>, <<>>), incoming |-> Cmd(255, <<>>, <<"abort">>)] }
    \cup {[spawn |-> TRUE, init |-> Cmd(0, <<>>, <<>>), incoming |-> Cmd(0, out, <<>>)] :
            out \in HgOuts}

\* ------------------------------------------------------------- state

VARIABLES
    files,        \* path -> the bytes of the script file
    order,        \* what glob.glob returns
    run,          \* which run of the job this is
    queue,        \* main: the scripts still to process in this run
    pc,           \* "main" (between scripts), "slot" (in process_script), "exit"
    cur,          \* the script_path of the current (or last) process_script call
    i,            \* process_script: the slot the loop is at
    vars_dict,    \* process_script: the variables parsed when the script was read
    before,       \* the bytes of cur when process_script read it
    calls,        \* the checker calls of this process_script call, in order
    resp,         \* what the commands of the last checker call met
    ops,          \* the writes of this process_script call, in order
    upd,          \* the last update_script_content call: bytes before and after
    processed,    \* path -> process_script calls in this run
    failed,       \* the scripts whose processing raised in this run
    exitStatus,   \* "running", "success", "failure"
    answers,      \* <<path, slot>> -> what that slot's remote last answered
    sameRemote,   \* no remote has changed since the previous run
    prevFiles     \* the files as the previous run left them

vars ==
    <<files, order, run, queue, pc, cur, i, vars_dict, before, calls, resp, ops,
      upd, processed, failed, exitStatus, answers, sameRemote, prevFiles>>

MaxSlot == 9
Suffix(slot) == IF slot = 1 THEN "" ELSE ToString(slot)
Var(base, slot) == "SCRIPT_" \o base \o Suffix(slot)

NoResp == [spawn |-> TRUE]
NoUpdate == [pre |-> <<>>, var |-> "", value |-> <<>>, post |-> <<>>]
CheckmeMarker == <<"\n", "xxx_CHECKME_xxx", "\n">>
UnknownMarker == <<"\n", "xxx_CHECKME_UNKNOWN_xxx", "\n">>

Init ==
    /\ files \in [Paths -> ScriptPool]
    /\ files["scripts.d/b.sh"] \in CompanionPool
    /\ order \in GlobOrders
    /\ run = 1
    /\ queue = order
    /\ pc = "main"
    /\ cur = "none"
    /\ i = 1
    /\ vars_dict = EmptyDict
    /\ before = <<>>
    /\ calls = <<>>
    /\ resp = NoResp
    /\ ops = <<>>
    /\ upd = NoUpdate
    /\ processed = [p \in Paths |-> 0]
    /\ failed = {}
    /\ exitStatus = "running"
    /\ answers = EmptyDict
    /\ sameRemote = FALSE
    /\ prevFiles = files

\* --------------------------------------------------------- process_script

\* Mutant of SkipRequested: the skip test reads the value, not the presence.
SkipRequestedTruthy(d) == Truthy(Get(d, "SCRIPT_SKIP"))

\* 'SCRIPT_SKIP' in vars_dict
SkipRequested(d) == "SCRIPT_SKIP" \in DOMAIN d

\* Mutant of Dispatch: COMMIT is looked at first.
DispatchCommitFirst(rev, hgrev, commit) ==
    IF Truthy(commit) THEN "git"
    ELSE IF Truthy(rev) THEN "svn"
    ELSE IF Truthy(hgrev) THEN "hg"
    ELSE "unknown"

\* The first non-empty of REV, HGREV, COMMIT decides the backend.
Dispatch(rev, hgrev, commit) ==
    IF Truthy(rev) THEN "svn"
    ELSE IF Truthy(hgrev) THEN "hg"
    ELSE IF Truthy(commit) THEN "git"
    ELSE "unknown"

\* Mutant of NoRepoBreaks: the break sits inside `if not suffix`.
BreakOnlyFirst(slot) == slot = 1

\* The break that follows a missing REPO is taken at every slot.
NoRepoBreaks(slot) == TRUE

\* Mutant of MainCatches: main catches subprocess.CalledProcessError only.
CatchesCalledProcessError(exc) == exc = "CalledProcessError"

\* main: except Exception catches every exception the checkers raise.
MainCatches(exc) == exc \in {"FileNotFoundError", "CalledProcessError", "IndexError"}

\* The scripts this process_script call may write: script_path only.
WriteTarget(script_path) == script_path

Return == pc' = "main" /\ i' = 1 /\ vars_dict' = EmptyDict
Advance ==
    IF i = MaxSlot THEN Return ELSE pc' = "slot" /\ i' = i + 1 /\ UNCHANGED vars_dict

Begin(path) ==
    /\ cur' = path
    /\ queue' = Tail(queue)
    /\ before' = files[path]
    /\ calls' = <<>>
    /\ ops' = <<>>
    /\ resp' = NoResp
    /\ upd' = NoUpdate
    /\ processed' = [processed EXCEPT ![path] = @ + 1]
    /\ UNCHANGED <<files, order, run, failed, exitStatus, answers, sameRemote, prevFiles>>

\* main takes the next script; process_script reads it and finds SCRIPT_SKIP.
ProcessSkip ==
    /\ pc = "main" /\ queue # <<>>
    /\ SkipRequested(get_script_vars(UniversalNewlines(files[Head(queue)])))
    /\ Begin(Head(queue))
    /\ UNCHANGED <<pc, i, vars_dict>>

\* main takes the next script; process_script reads it and enters its loop.
ProcessStart ==
    /\ pc = "main" /\ queue # <<>>
    /\ ~SkipRequested(get_script_vars(UniversalNewlines(files[Head(queue)])))
    /\ Begin(Head(queue))
    /\ pc' = "slot" /\ i' = 1
    /\ vars_dict' = get_script_vars(UniversalNewlines(files[Head(queue)]))

AppendMarker(marker, op) ==
    /\ files' = [files EXCEPT ![WriteTarget(cur)] = @ \o marker]
    /\ ops' = Append(ops, op)

\* One loop iteration with no (or an empty) SCRIPT_REPO{suffix}.
SlotNoRepo ==
    /\ pc = "slot"
    /\ ~Truthy(Get(vars_dict, Var("REPO", i)))
    /\ IF i = 1 THEN AppendMarker(CheckmeMarker, "checkme")
       ELSE UNCHANGED <<files, ops>>
    /\ IF NoRepoBreaks(i) THEN Return ELSE Advance
    /\ UNCHANGED <<order, run, queue, cur, before, calls, resp, upd, processed,
                   failed, exitStatus, answers, sameRemote, prevFiles>>

\* One loop iteration with a REPO and none of REV, HGREV, COMMIT.
SlotUnknown ==
    /\ pc = "slot"
    /\ Truthy(Get(vars_dict, Var("REPO", i)))
    /\ Dispatch(Get(vars_dict, Var("REV", i)), Get(vars_dict, Var("HGREV", i)),
                Get(vars_dict, Var("COMMIT", i))) = "unknown"
    /\ AppendMarker(UnknownMarker, "unknown")
    /\ Return
    /\ UNCHANGED <<order, run, queue, cur, before, calls, resp, upd, processed,
                   failed, exitStatus, answers, sameRemote, prevFiles>>

\* A remote that has answered keeps its answer until the remotes change.
Remote(pool) == IF <<cur, i>> \in DOMAIN answers THEN {answers[<<cur, i>>]} ELSE pool

\* The rest of a loop iteration once the checker has returned or raised.
AfterCheck(backend, var, stored, r, res) ==
    /\ calls' = Append(calls, [slot |-> i, backend |-> backend, var |-> var,
                               stored |-> stored, kind |-> res.kind, val |-> res.val])
    /\ resp' = r
    /\ answers' = Put(answers, <<cur, i>>, r)
    /\ IF res.kind = "raise"
       THEN /\ failed' = failed \cup {cur}
            /\ UNCHANGED <<files, ops, upd>>
            /\ IF MainCatches(res.val[1])
               THEN Return /\ UNCHANGED exitStatus
               ELSE pc' = "exit" /\ exitStatus' = "failure" /\ UNCHANGED <<i, vars_dict>>
       ELSE /\ IF Truthy(res.val) /\ res.val # stored
               THEN LET target == WriteTarget(cur)
                        post == update_script_content(files[target], var, res.val)
                    IN  /\ files' = [files EXCEPT ![target] = post]
                        /\ ops' = Append(ops, "update")
                        /\ upd' = [pre |-> files[target], var |-> var,
                                   value |-> res.val, post |-> post]
               ELSE UNCHANGED <<files, ops, upd>>
            /\ Advance
            /\ UNCHANGED <<failed, exitStatus>>
    /\ UNCHANGED <<order, run, queue, cur, before, processed, sameRemote, prevFiles>>

Backend ==
    Dispatch(Get(vars_dict, Var("REV", i)), Get(vars_dict, Var("HGREV", i)),
             Get(vars_dict, Var("COMMIT", i)))

SlotSvn ==
    /\ pc = "slot"
    /\ Truthy(Get(vars_dict, Var("REPO", i)))
    /\ Backend = "svn"
    /\ \E r \in Remote(SvnResponses) :
          AfterCheck("svn", Var("REV", i), Get(vars_dict, Var("REV", i)), r,
                     check_svn_repo(r))

SlotHg ==
    /\ pc = "slot"
    /\ Truthy(Get(vars_dict, Var("REPO", i)))
    /\ Backend = "hg"
    /\ \E r \in Remote(HgResponses) :
          AfterCheck("hg", Var("HGREV", i), Get(vars_dict, Var("HGREV", i)), r,
                     check_hg_repo(r))

SlotGit ==
    /\ pc = "slot"
    /\ Truthy(Get(vars_dict, Var("REPO", i)))
    /\ Backend = "git"
    /\ LET branch == Get(vars_dict, Var("BRANCH", i))
           tag_filter == Get(vars_dict, Var("TAGFILTER", i))
       IN  \E r \in Remote(GitResponses(branch, tag_filter)) :
              AfterCheck("git", Var("COMMIT", i), Get(vars_dict, Var("COMMIT", i)), r,
                         check_git_repo(r, branch, tag_filter))

\* ------------------------------------------------------------------ main

\* The for loop of main is over: the job ends with success status.
MainExit ==
    /\ pc = "main" /\ queue = <<>>
    /\ pc' = "exit"
    /\ exitStatus' = "success"
    /\ UNCHANGED <<files, order, run, queue, cur, i, vars_dict, before, calls, resp,
                   ops, upd, processed, failed, answers, sameRemote, prevFiles>>

\* main starts over on the files the previous run left.
Restart ==
    /\ pc = "exit" /\ run < MaxRuns
    /\ run' = run + 1
    /\ pc' = "main"
    /\ queue' = order
    /\ cur' = "none"
    /\ before' = <<>>
    /\ calls' = <<>>
    /\ resp' = NoResp
    /\ ops' = <<>>
    /\ upd' = NoUpdate
    /\ processed' = [p \in Paths |-> 0]
    /\ failed' = {}
    /\ exitStatus' = "running"
    /\ prevFiles' = files
    /\ UNCHANGED <<files, order, i, vars_dict>>

\* The job is run again and every remote answers as it did.
Rerun == Restart /\ sameRemote' = TRUE /\ UNCHANGED answers

\* The job is run again after the remotes have changed.
RerunChanged == Restart /\ sameRemote' = FALSE /\ answers' = EmptyDict

Step ==
    \/ ProcessSkip
    \/ ProcessStart
    \/ SlotNoRepo
    \/ SlotUnknown
    \/ SlotSvn
    \/ SlotHg
    \/ SlotGit
    \/ MainExit

Next == Step \/ Rerun \/ RerunChanged

Spec == Init /\ [][Next]_vars

\* The program is sequential and every external command returns: a step that
\* is possible is taken.
FairSpec == Spec /\ WF_vars(Step)

\* ---------------------------------------------------------------- claims

Parsed(disk) == get_script_vars(UniversalNewlines(disk))
Last(s) == s[Len(s)]
Returned == cur # "none" /\ pc # "slot"

\* The lines of a file, each with its own line ending ("\n", "\r\n", "\r").
RECURSIVE PhysLines(_)
PhysLines(s) ==
    IF s = <<>> THEN <<>>
    ELSE LET ends == {k \in 1..Len(s) : s[k] \in {"\n", "\r"}}
             n == IF ends = {} THEN Len(s) ELSE CHOOSE k \in ends : \A j \in ends : k <= j
             e == IF n < Len(s) /\ s[n] = "\r" /\ s[n+1] = "\n" THEN n + 1 ELSE n
         IN  <<SubSeq(s, 1, e)>> \o PhysLines(SubSeq(s, e + 1, Len(s)))
RECURSIVE LineText(_)
LineText(l) ==
    IF l # <<>> /\ Last(l) \in {"\n", "\r"} THEN LineText(SubSeq(l, 1, Len(l) - 1)) ELSE l
LineEnd(l) == SubSeq(l, Len(LineText(l)) + 1, Len(l))

\* C1: for a script without SCRIPT_SKIP, once process_script has returned, the
\* revision marker of every slot it reached, parsed again from the file, is the
\* checker's value when that is non-empty and differs from the stored one, and
\* the stored value otherwise (so earlier slots' updates survive later slots);
\* and a script with no changed value and no marker is not written.
Changing(c) == c.kind = "value" /\ Truthy(c.val) /\ c.val # c.stored
C1_SlotValues ==
    (Returned /\ ~("SCRIPT_SKIP" \in DOMAIN Parsed(before))) =>
        /\ \A n \in 1..Len(calls) :
              Get(Parsed(files[cur]), calls[n].var) =
                 IF Changing(calls[n]) THEN calls[n].val ELSE calls[n].stored
        /\ ((\A n \in 1..Len(calls) : ~Changing(calls[n]))
              /\ "checkme" \notin {ops[k] : k \in 1..Len(ops)}
              /\ "unknown" \notin {ops[k] : k \in 1..Len(ops)})
           => (ops = <<>> /\ files[cur] = before)

\* C2: a second run of the job, the remotes answering as in the first, leaves
\* every file byte-identical to what the first run left, and rewrites nothing.
C2_Idempotent ==
    /\ (run >= 2 /\ sameRemote /\ pc = "exit") => files = prevFiles
    /\ (run >= 2 /\ sameRemote /\ Returned) => ops = <<>>

\* C3: an update_script_content call for a variable parsed from the file changes
\* exactly one line, a line get_script_vars reads as an assignment of that
\* variable, keeps every other line and every line ending, and the lines
\* get_script_vars reads as assignments of the name are the lines replaced.
ParsedAs(l, name) ==
    LET t == strip(l) IN AssignMatch(t) /\ t[1] = name
C3_RoundTrip ==
    upd # NoUpdate =>
        LET pre == PhysLines(upd.pre)
            post == PhysLines(upd.post)
        IN  /\ Len(post) = Len(pre)
            /\ \E k \in 1..Len(pre) :
                  /\ ParsedAs(pre[k], upd.var)
                  /\ post[k] = NewLine(upd.var, upd.value) \o LineEnd(pre[k])
                  /\ \A j \in 1..Len(pre) : j # k => post[j] = pre[j]
            /\ {k \in 1..Len(pre) : ParsedAs(pre[k], upd.var)}
                 = {k \in 1..Len(pre) : UpdateMatch(LineText(pre[k]), upd.var)}

\* C4: a script whose text holds a line SCRIPT_SKIP="..." or SCRIPT_SKIP='...'
\* is never written or appended to, and no checker is called for it, whatever
\* else it declares.
HasSkipAssignment(disk) ==
    \E k \in 1..Len(PhysLines(disk)) :
        LET t == strip(PhysLines(disk)[k])
        IN  /\ Len(t) >= 4
            /\ t[1] = "SCRIPT_SKIP" /\ t[2] = "="
            /\ t[3] \in Quotes /\ t[Len(t)] = t[3]
C4_SkipHonored ==
    (cur # "none" /\ HasSkipAssignment(before)) =>
        /\ pc # "slot"
        /\ calls = <<>>
        /\ ops = <<>>
        /\ files[cur] = before
C4_Witness ==
    /\ cur # "none" /\ HasSkipAssignment(before)
    /\ Truthy(Get(Parsed(before), "SCRIPT_REPO"))
    /\ Truthy(Get(Parsed(before), "SCRIPT_COMMIT"))
    /\ processed[cur] = 1
    /\ pc = "exit"

\* C5: the checker calls of a process_script call are for slots 1, 2, ... in
\* that order and all below the first slot k whose SCRIPT_REPO{suffix} is
\* missing or empty; the loop never goes past k, and no variable of slot k or
\* above changes, even when such a slot declares a REPO.
SlotBases == {"REPO", "COMMIT", "REV", "HGREV", "BRANCH", "TAGFILTER"}
FirstMissing(d) ==
    CHOOSE k \in 1..(MaxSlot + 1) :
        /\ k = MaxSlot + 1 \/ ~Truthy(Get(d, Var("REPO", k)))
        /\ \A j \in 1..(k - 1) : Truthy(Get(d, Var("REPO", j)))
C5_SlotContiguity ==
    cur # "none" =>
        \A d \in {Parsed(before)} : \A now \in {Parsed(files[cur])} :
            \A k \in {FirstMissing(d)} :
                /\ \A n \in 1..Len(calls) : calls[n].slot = n /\ n < k
                /\ pc = "slot" => i <= k
                /\ \A j \in k..MaxSlot : \A b \in SlotBases :
                      Get(now, Var(b, j)) = Get(d, Var(b, j))
C5_Witness ==
    /\ Returned
    /\ FirstMissing(Parsed(before)) = 2
    /\ Truthy(Get(Parsed(before), "SCRIPT_REPO3"))
    /\ Truthy(Get(Parsed(before), "SCRIPT_COMMIT3"))
    /\ Len(calls) = 1
    /\ ops = <<"update">>

\* C6: every reached slot with a non-empty REPO gets exactly one checker call,
\* that of the first non-empty of REV (svn), HGREV (hg), COMMIT (git); a slot
\* with a REPO and none of the three gets no call, one unknown-layout marker
\* is appended and the processing of the script ends.
MarkerBackend(d, slot) ==
    IF Get(d, Var("REV", slot)) \notin {None, <<>>} THEN "svn"
    ELSE IF Get(d, Var("HGREV", slot)) \notin {None, <<>>} THEN "hg"
    ELSE IF Get(d, Var("COMMIT", slot)) \notin {None, <<>>} THEN "git"
    ELSE "none"
C6_BackendDispatch ==
    (cur # "none" /\ ~("SCRIPT_SKIP" \in DOMAIN Parsed(before))) =>
        LET d == Parsed(before)
            m == Len(calls) + 1
        IN  /\ \A n \in 1..Len(calls) :
                  /\ calls[n].slot = n
                  /\ Truthy(Get(d, Var("REPO", n)))
                  /\ calls[n].backend = MarkerBackend(d, n)
            /\ (pc # "slot" /\ cur \notin failed /\ m <= MaxSlot
                  /\ Truthy(Get(d, Var("REPO", m))))
               => /\ MarkerBackend(d, m) = "none"
                  /\ ops # <<>> /\ Last(ops) = "unknown"
                  /\ Cardinality({k \in 1..Len(ops) : ops[k] = "unknown"}) = 1
                  /\ files[cur] =
                       (IF ops = <<"unknown">> THEN before
                        ELSE SubSeq(files[cur], 1, Len(files[cur]) - Len(UnknownMarker)))
                       \o UnknownMarker
            /\ "unknown" \in {ops[k] : k \in 1..Len(ops)} => pc # "slot"
C6_Witness ==
    /\ Returned
    /\ Len(calls) = 1
    /\ calls[1].backend = "hg"
    /\ Truthy(Get(Parsed(before), "SCRIPT_HGREV"))
    /\ Truthy(Get(Parsed(before), "SCRIPT_COMMIT"))
    /\ ops = <<"update">>

\* C7: with a tag filter set and the tag listing obtained, check_git_repo
\* returns the commit of the remote's highest matching tag in version order,
\* and no result when the remote lists no matching tag.
HighestVersion(tags) ==
    CHOOSE t \in tags : \A u \in tags \ {t} : LexLess(u.ver, t.ver)
C7_TagSelection ==
    (calls # <<>> /\ Last(calls).backend = "git"
       /\ Truthy(Get(Parsed(before), Var("TAGFILTER", Last(calls).slot)))
       /\ resp.spawn /\ resp.tagsrc = 0)
    => Last(calls).val =
          IF resp.tags = {} THEN None ELSE <<HighestVersion(resp.tags).commit>>

\* C8: an svn check whose diagnostic output holds an authentication phrase
\* returns no result and the step leaves every file as it was, whatever the
\* return code and whether or not stdout holds a Revision: line.
AuthPhrases == {"Authentication required", "Username:"}
C8_SvnAuthSkip ==
    [][(/\ Len(calls') = Len(calls) + 1
        /\ Last(calls').backend = "svn"
        /\ resp'.spawn
        /\ \E k \in 1..Len(resp'.info.stderr) : resp'.info.stderr[k] \in AuthPhrases)
       => (Last(calls').kind = "none" /\ files' = files)]_vars
C8_Witness ==
    /\ calls # <<>> /\ Last(calls).backend = "svn"
    /\ resp.spawn
    /\ Contains(resp.info.stderr, "Username:")
    /\ resp.info.rc = 0
    /\ Contains(resp.info.stdout, "Revision")
    /\ Last(calls).kind = "none"
    /\ files[cur] = before

\* C9: no checker call raises, and a process_script call that has returned
\* has called a checker for every declared slot (each slot from 1 on that has
\* a REPO and a revision marker).
Declared(d, slot) ==
    Truthy(Get(d, Var("REPO", slot))) /\ MarkerBackend(d, slot) # "none"
C9_NeverRaises ==
    (cur # "none" /\ ~("SCRIPT_SKIP" \in DOMAIN Parsed(before))) =>
        /\ \A n \in 1..Len(calls) : calls[n].kind # "raise"
        /\ Returned =>
              \A j \in 1..MaxSlot :
                 (\A m \in 1..j : Declared(Parsed(before), m)) => j <= Len(calls)

\* C10: every run of main ends, with success status and with every discovered
\* script passed to process_script exactly once, also when the processing of
\* a script raised; and a file changes only while it is the script being
\* processed.
C10_Isolation ==
    /\ [](pc = "exit" =>
            (exitStatus = "success" /\ \A p \in Paths : processed[p] = 1))
    /\ [](\A p \in Paths : processed[p] <= 1)
    /\ [][\A p \in Paths : files'[p] # files[p] => (pc = "slot" /\ p = cur)]_vars
    /\ ((pc = "main") ~> (pc = "exit"))
C10_Witness ==
    /\ pc = "exit"
    /\ order[1] \in failed
    /\ cur = order[2]
    /\ processed[order[2]] = 1
    /\ ops = <<"update">>
====
